---------------------------- MODULE Spec2Model ----------------------------
(***************************************************************************)
(* Model of py2c.tree.node_gen: the lexer rules and grammar actions of     *)
(* Parser, SourceGenerator and the generate() batch driver.                *)
(*                                                                         *)
(* Texts are TLA+ strings; positions are Python's 0-based offsets, so the  *)
(* character at offset i of s is SubSeq(s, i+1, i+1).                      *)
(***************************************************************************)
EXTENDS Integers, Sequences, FiniteSets, TLC

(***************************************************************************)
(* Bounds of the model                                                     *)
(***************************************************************************)
MaxDecls == 2
MaxFields == 2
MaxCalls == 2
MaxFiles == 2

(***************************************************************************)
(* String helpers                                                          *)
(***************************************************************************)
\* s[i] of Python, "" past the end
CharAt(s, i) == IF i >= 0 /\ i < Len(s) THEN SubSeq(s, i + 1, i + 1) ELSE ""

\* s[i:j] of Python, for 0 <= i <= j <= len(s)
Slice(s, i, j) == IF i >= j THEN "" ELSE SubSeq(s, i + 1, j)

\* s.startswith(p, i)
StartsWithAt(s, i, p) == i + Len(p) <= Len(s) /\ Slice(s, i, i + Len(p)) = p

\* s.find(p, i): offset of the first occurrence of p in s at or after i,
\* -1 without one
Find(s, i, p) ==
    LET hits == {j \in i..(Len(s) - Len(p)) : StartsWithAt(s, j, p)}
    IN  IF hits = {} THEN -1
        ELSE CHOOSE j \in hits : \A k \in hits : j <= k

\* s.endswith(p)
EndsWith(s, p) == Len(p) <= Len(s) /\ Slice(s, Len(s) - Len(p), Len(s)) = p

\* the characters the pattern \w matches (ASCII inputs)
WordChars ==
    {"a","b","c","d","e","f","g","h","i","j","k","l","m",
     "n","o","p","q","r","s","t","u","v","w","x","y","z",
     "A","B","C","D","E","F","G","H","I","J","K","L","M",
     "N","O","P","Q","R","S","T","U","V","W","X","Y","Z",
     "0","1","2","3","4","5","6","7","8","9","_"}

\* end offset of the match of \w+ at offset i (i itself when there is none)
RECURSIVE WordEnd(_, _)
WordEnd(s, i) == IF CharAt(s, i) \in WordChars THEN WordEnd(s, i + 1) ELSE i

\* Python's None
None == "<None>"

(***************************************************************************)
(* remove_comments: re.sub(r"(?m)\#.*($|\n)", "", text).  "." stops at a   *)
(* newline and the alternative "$" is tried first and matches before the   *)
(* newline, so the comment is removed and the newline is kept.             *)
(***************************************************************************)
\* offset of the end of the line that holds offset i
LineEnd(s, i) ==
    LET at == Find(s, i, "\n") IN IF at = -1 THEN Len(s) ELSE at

\* the text from offset i on, without its comments
RECURSIVE remove_comments_from(_, _)
remove_comments_from(text, i) ==
    LET at == Find(text, i, "#")
    IN  IF at = -1 THEN Slice(text, i, Len(text))
        ELSE Slice(text, i, at)
             \o remove_comments_from(text, LineEnd(text, at))

remove_comments(text) == remove_comments_from(text, 0)

(***************************************************************************)
(* Lexer rules of Parser.__init__ and the token loop that runs them.       *)
(* The rules are tried in this order at each offset: the function rule     *)
(* t_newline, then the string rules by decreasing pattern length           *)
(* (t_INHERIT, 7 characters, before t_NAME, 3 characters); a rule that     *)
(* matches wins, whatever a later rule would have matched. Literals are    *)
(* tried when no rule matches, then t_error.                               *)
(***************************************************************************)
t_INHERIT == "inherit"
t_ignore == {" ", "\t"}
literals == {"(", ")", "[", "]", ":", "*", "?", "+", ","}

NoTok == [type |-> "<none>", value |-> "", lineno |-> 0, lexpos |-> 0]
LexToken(type, value, lineno, lexpos) ==
    [type |-> type, value |-> value, lineno |-> lineno, lexpos |-> lexpos]
\* the end-of-input lookahead, which p_error receives as None
EndTok == LexToken("$end", "", 0, 0)

\* t_NAME = r"\w+": the end offset of its match at i
t_NAME(lexdata, i) == WordEnd(lexdata, i)

\* one call of the lexer's token(): [kind, tok, lexpos, lineno, rest]
RECURSIVE token(_, _, _)
token(lexdata, lexpos, lineno) ==
    LET c == CharAt(lexdata, lexpos) IN
    IF lexpos >= Len(lexdata)
    THEN [kind |-> "eof", tok |-> EndTok, lexpos |-> lexpos + 1,
          lineno |-> lineno, rest |-> ""]
    ELSE IF c \in t_ignore THEN token(lexdata, lexpos + 1, lineno)
    \* t_newline: counts the line and returns no token
    ELSE IF c = "\n" THEN token(lexdata, lexpos + 1, lineno + 1)
    ELSE IF StartsWithAt(lexdata, lexpos, t_INHERIT)
    THEN [kind |-> "tok",
          tok |-> LexToken("INHERIT", t_INHERIT, lineno, lexpos),
          lexpos |-> lexpos + Len(t_INHERIT), lineno |-> lineno, rest |-> ""]
    ELSE IF t_NAME(lexdata, lexpos) > lexpos
    THEN [kind |-> "tok",
          tok |-> LexToken("NAME", Slice(lexdata, lexpos, t_NAME(lexdata, lexpos)),
                           lineno, lexpos),
          lexpos |-> t_NAME(lexdata, lexpos), lineno |-> lineno, rest |-> ""]
    ELSE IF c \in literals
    THEN [kind |-> "tok", tok |-> LexToken(c, c, lineno, lexpos),
          lexpos |-> lexpos + 1, lineno |-> lineno, rest |-> ""]
    \* t_error is called with the rest of the input as the token's value
    ELSE [kind |-> "error", tok |-> NoTok, lexpos |-> lexpos,
          lineno |-> lineno, rest |-> Slice(lexdata, lexpos, Len(lexdata))]

(***************************************************************************)
(* Values built by the grammar actions                                     *)
(***************************************************************************)
\* Definition = collections.namedtuple("Definition", "name parent fields")
Definition(name, parent, fields) ==
    [name |-> name, parent |-> parent, fields |-> fields]

\* The value of fields: the string 'inherit' or a list of field triples.
\* Both are carried in one record shape so that they can be compared.
InheritMarker == [marker |-> "inherit", list |-> << >>]
FieldList(li) == [marker |-> "list", list |-> li]

\* ParserError and its message: the format string (what) and its arguments
ParserError(what, name, items, tok, rest) ==
    [kind |-> "ParserError", what |-> what, name |-> name, items |-> items,
     tok |-> tok, rest |-> rest]
Returned(data) == [kind |-> "ok", data |-> data]
NoOutcome == [kind |-> "<none>"]

\* len(p) of a production whose right-hand side values are p[1..n]
lenp(p) == Len(p) + 1

(***************************************************************************)
(* Grammar actions (the p_ functions). p is the sequence p[1..n] of the    *)
(* right-hand side values; the result is p[0].                             *)
(***************************************************************************)
p_empty == None

p_start(p) == p[1]

p_zero_or_more_declaration(p) ==
    IF lenp(p) = 2 THEN << >> ELSE Append(p[1], p[2])

\* a loop that forgets the names it has seen
duplicated_fields_forgetful(fields, i, seen_fields, duplicated) == << >>

\* the loop of p_declaration over the fields: the names seen twice or more
RECURSIVE duplicated_fields(_, _, _, _)
duplicated_fields(fields, i, seen_fields, duplicated) ==
    IF i > Len(fields) THEN duplicated
    ELSE LET field_name == fields[i][1] IN
         IF \E k \in 1..Len(seen_fields) : seen_fields[k] = field_name
         THEN duplicated_fields(fields, i + 1, seen_fields,
                                Append(duplicated, field_name))
         ELSE duplicated_fields(fields, i + 1, Append(seen_fields, field_name),
                                duplicated)

\* p_declaration with some of its three checks left out
declaration_with(p, seen_node_names, check_name, check_fields, check_parent) ==
    LET name == p[1]
        parent == p[2]
        fields == p[3]
        seen == seen_node_names \cup {name}
        dups == duplicated_fields(fields.list, 1, << >>, << >>)
        none == ParserError("", "", << >>, NoTok, "")
    IN  IF check_name /\ name \in seen_node_names
        THEN [raised |-> TRUE,
              error |-> ParserError("Multiple declarations of name", name,
                                    << >>, NoTok, ""),
              value |-> None, seen_node_names |-> seen_node_names]
        ELSE IF check_fields /\ fields # InheritMarker /\ dups # << >>
        THEN [raised |-> TRUE,
              error |-> ParserError("Multiple declarations in ... of attribute",
                                    name, dups, NoTok, ""),
              value |-> None, seen_node_names |-> seen]
        ELSE IF check_parent /\ fields = InheritMarker /\ parent = None
        THEN [raised |-> TRUE,
              error |-> ParserError("Inheriting nodes need parents to inherit from",
                                    name, << >>, NoTok, ""),
              value |-> None, seen_node_names |-> seen]
        ELSE [raised |-> FALSE, error |-> none,
              value |-> Definition(name, parent, fields),
              seen_node_names |-> seen]
p_declaration_any_name(p, seen_node_names) ==
    declaration_with(p, seen_node_names, FALSE, TRUE, TRUE)
p_declaration_any_parent(p, seen_node_names) ==
    declaration_with(p, seen_node_names, TRUE, TRUE, FALSE)

\* [raised, error, value, seen_node_names]
p_declaration(p, seen_node_names) ==
    LET name == p[1]
        parent == p[2]
        fields == p[3]
        seen == seen_node_names \cup {name}
        dups == duplicated_fields(fields.list, 1, << >>, << >>)
        none == ParserError("", "", << >>, NoTok, "")
    IN  IF name \in seen_node_names
        THEN [raised |-> TRUE,
              error |-> ParserError("Multiple declarations of name", name,
                                    << >>, NoTok, ""),
              value |-> None, seen_node_names |-> seen_node_names]
        ELSE IF fields # InheritMarker /\ dups # << >>
        THEN [raised |-> TRUE,
              error |-> ParserError("Multiple declarations in ... of attribute",
                                    name, dups, NoTok, ""),
              value |-> None, seen_node_names |-> seen]
        ELSE IF fields = InheritMarker /\ parent = None
        THEN [raised |-> TRUE,
              error |-> ParserError("Inheriting nodes need parents to inherit from",
                                    name, << >>, NoTok, ""),
              value |-> None, seen_node_names |-> seen]
        ELSE [raised |-> FALSE, error |-> none,
              value |-> Definition(name, parent, fields),
              seen_node_names |-> seen]

p_parent_class_opt(p) == IF lenp(p) > 2 THEN p[2] ELSE None

p_colon_fields_opt(p) == IF lenp(p) > 2 THEN p[2] ELSE FieldList(<< >>)

p_fields(p) ==
    IF lenp(p) = 2 THEN [marker |-> p[1], list |-> << >>] ELSE FieldList(p[2])

p_field_list(p) == IF lenp(p) > 2 THEN <<p[1]>> \o p[2] ELSE << >>

p_more_fields_maybe(p) == IF lenp(p) > 2 THEN Append(p[1], p[3]) ELSE << >>

\* the triple left in the order of the surface syntax
p_field_untransposed(p) == <<p[1], p[2], p[3]>>

p_field(p) == <<p[3], p[1], p[2]>>

p_modifier(p) ==
    IF p[1] = "+" THEN "ONE_OR_MORE"
    ELSE IF p[1] = "*" THEN "ZERO_OR_MORE"
    ELSE IF p[1] = "?" THEN "OPTIONAL"
    ELSE "NEEDED"

\* p_error(t): t is None at the end of the input
p_error(t) == ParserError("Unexpected token", "", << >>, t, "")

(***************************************************************************)
(* The LALR(1) driver run over the grammar of the p_ docstrings:           *)
(*   start : zero_or_more_declaration                                      *)
(*   zero_or_more_declaration : zero_or_more_declaration declaration       *)
(*                            | empty                                      *)
(*   declaration : NAME parent_class_opt colon_fields_opt                  *)
(*   parent_class_opt : '(' NAME ')' | empty                               *)
(*   colon_fields_opt : ':' fields | empty                                 *)
(*   fields : '[' field_list ']' | INHERIT                                 *)
(*   field_list : field more_fields_maybe ','                              *)
(*              | field more_fields_maybe | empty                          *)
(*   more_fields_maybe : more_fields_maybe ',' field | empty               *)
(*   field : NAME modifier NAME                                            *)
(*   modifier : empty | '?' | '+' | '*'                                    *)
(* The parser state is identified by the symbols on top of the stack; a    *)
(* reduction is made only on a lookahead that can follow it, and any       *)
(* other lookahead is an error handed to p_error.                          *)
(***************************************************************************)
Shift == [kind |-> "shift", prod |-> "", n |-> 0]
Reduce(prod, n) == [kind |-> "reduce", prod |-> prod, n |-> n]
SyntaxError == [kind |-> "error", prod |-> "", n |-> 0]
Accept == [kind |-> "accept", prod |-> "", n |-> 0]

\* the k-th symbol from the top of the stack, "" below its bottom
Sym(symstack, k) ==
    IF k <= Len(symstack) THEN symstack[Len(symstack) + 1 - k].sym ELSE ""

EndsDeclaration == {"NAME", "$end"}
EndsField == {",", "]"}

LRAction(symstack, la) ==
    LET s1 == Sym(symstack, 1)
        s2 == Sym(symstack, 2)
        s3 == Sym(symstack, 3)
    IN
    CASE s1 = "" ->
           IF la \in EndsDeclaration THEN Reduce("empty", 0) ELSE SyntaxError
      [] s1 = "empty" ->
           IF s2 = "" THEN Reduce("zero_or_more_declaration", 1)
           ELSE IF s2 = "NAME" /\ s3 = "zero_or_more_declaration"
           THEN Reduce("parent_class_opt", 1)
           ELSE IF s2 = "parent_class_opt" THEN Reduce("colon_fields_opt", 1)
           ELSE IF s2 = "[" THEN Reduce("field_list", 1)
           ELSE IF s2 = "NAME" THEN Reduce("modifier", 1)
           ELSE Reduce("more_fields_maybe", 1)
      [] s1 = "zero_or_more_declaration" ->
           IF la = "NAME" THEN Shift
           ELSE IF la = "$end" THEN Reduce("start", 1) ELSE SyntaxError
      [] s1 = "start" -> IF la = "$end" THEN Accept ELSE SyntaxError
      [] s1 = "NAME" /\ s2 = "zero_or_more_declaration" ->
           IF la = "(" THEN Shift
           ELSE IF la \in {":"} \cup EndsDeclaration THEN Reduce("empty", 0)
           ELSE SyntaxError
      [] s1 = "NAME" /\ s2 = "(" -> IF la = ")" THEN Shift ELSE SyntaxError
      [] s1 = "NAME" /\ s2 \in {"[", ","} ->
           IF la \in {"?", "+", "*"} THEN Shift
           ELSE IF la = "NAME" THEN Reduce("empty", 0) ELSE SyntaxError
      [] s1 = "NAME" /\ s2 = "modifier" ->
           IF la \in EndsField THEN Reduce("field", 3) ELSE SyntaxError
      [] s1 = "(" -> IF la = "NAME" THEN Shift ELSE SyntaxError
      [] s1 = ")" ->
           IF la \in {":"} \cup EndsDeclaration
           THEN Reduce("parent_class_opt", 3) ELSE SyntaxError
      [] s1 = "parent_class_opt" ->
           IF la = ":" THEN Shift
           ELSE IF la \in EndsDeclaration THEN Reduce("empty", 0)
           ELSE SyntaxError
      [] s1 = ":" -> IF la \in {"[", "INHERIT"} THEN Shift ELSE SyntaxError
      [] s1 = "INHERIT" ->
           IF la \in EndsDeclaration THEN Reduce("fields", 1) ELSE SyntaxError
      [] s1 = "[" ->
           IF la = "NAME" THEN Shift
           ELSE IF la = "]" THEN Reduce("empty", 0) ELSE SyntaxError
      \* the only action of this state: taken without reading a lookahead
      [] s1 \in {"?", "+", "*"} -> Reduce("modifier", 1)
      [] s1 = "modifier" -> IF la = "NAME" THEN Shift ELSE SyntaxError
      [] s1 = "field" /\ s2 = "[" ->
           IF la \in EndsField THEN Reduce("empty", 0) ELSE SyntaxError
      [] s1 = "field" /\ s2 = "," ->
           IF la \in EndsField THEN Reduce("more_fields_maybe", 3)
           ELSE SyntaxError
      [] s1 = "more_fields_maybe" ->
           IF la = "," THEN Shift
           ELSE IF la = "]" THEN Reduce("field_list", 2) ELSE SyntaxError
      [] s1 = "," ->
           IF la = "NAME" THEN Shift
           ELSE IF la = "]" THEN Reduce("field_list", 3) ELSE SyntaxError
      [] s1 = "field_list" -> IF la = "]" THEN Shift ELSE SyntaxError
      [] s1 = "]" ->
           IF la \in EndsDeclaration THEN Reduce("fields", 3) ELSE SyntaxError
      [] s1 = "fields" ->
           IF la \in EndsDeclaration THEN Reduce("colon_fields_opt", 2)
           ELSE SyntaxError
      [] s1 = "colon_fields_opt" ->
           IF la \in EndsDeclaration THEN Reduce("declaration", 3)
           ELSE SyntaxError
      [] s1 = "declaration" ->
           IF la \in EndsDeclaration THEN Reduce("zero_or_more_declaration", 2)
           ELSE SyntaxError
      [] OTHER -> SyntaxError

\* a state whose single action is a reduction reads no lookahead
NeedsLookahead(symstack) == Sym(symstack, 1) \notin {"?", "+", "*"}

(***************************************************************************)
(* The Parser object: seen_node_names, its lexer (lexdata, lexpos, lineno) *)
(* and the run of _parser.parse (lookahead, stack, result).                *)
(***************************************************************************)
\* Parser(): ply.lex.lex starts the lexer at line 1
NewParser ==
    [pc |-> "idle", seen_node_names |-> {}, lineno |-> 1,
     lexdata |-> "", lexpos |-> 0, la |-> NoTok, symstack |-> << >>,
     outcome |-> NoOutcome]

\* Parser._reset
_reset(P) == [P EXCEPT !.seen_node_names = {}]

\* Parser.parse up to the first step of self._parser.parse(text, lexer):
\* lexer.input(text) rewinds lexpos and leaves lineno as it is
parse(P, text) ==
    [_reset(P) EXCEPT !.pc = "parsing", !.lexdata = remove_comments(text),
                      !.lexpos = 0, !.la = NoTok, !.symstack = << >>,
                      !.outcome = NoOutcome]

\* what the next iteration of the parser's loop does
StepKind(P) ==
    IF P.pc # "parsing" THEN [kind |-> "none", prod |-> "", n |-> 0]
    ELSE IF NeedsLookahead(P.symstack) /\ P.la = NoTok
    THEN [kind |-> "token", prod |-> "", n |-> 0]
    ELSE LRAction(P.symstack, P.la.type)

\* the values p[1..n] on top of the stack
RhsValues(symstack, n) ==
    [k \in 1..n |-> symstack[Len(symstack) - n + k].val]

Raise(P, error) == [P EXCEPT !.pc = "raised", !.outcome = error]

Push(P, n, sym, val) ==
    [P EXCEPT !.symstack =
        Append(SubSeq(P.symstack, 1, Len(P.symstack) - n),
               [sym |-> sym, val |-> val])]

\* one iteration of the parser's loop
Step(P) ==
    LET act == StepKind(P)
        p == RhsValues(P.symstack, act.n)
    IN
    CASE act.kind = "token" ->
           LET r == token(P.lexdata, P.lexpos, P.lineno) IN
           IF r.kind = "error"
           THEN Raise([P EXCEPT !.lexpos = r.lexpos, !.lineno = r.lineno],
                      ParserError("Unable to generate tokens from", "", << >>,
                                  NoTok, r.rest))
           ELSE [P EXCEPT !.la = r.tok, !.lexpos = r.lexpos,
                          !.lineno = r.lineno]
      [] act.kind = "shift" ->
           [Push(P, 0, P.la.type, P.la.value) EXCEPT !.la = NoTok]
      [] act.kind = "error" -> Raise(P, p_error(P.la))
      [] act.kind = "accept" ->
           [P EXCEPT !.pc = "returned",
                     !.outcome = Returned(P.symstack[Len(P.symstack)].val)]
      [] act.kind = "reduce" /\ act.prod = "declaration" ->
           LET d == p_declaration(p, P.seen_node_names)
               Q == [P EXCEPT !.seen_node_names = d.seen_node_names]
           IN  IF d.raised THEN Raise(Q, d.error)
               ELSE Push(Q, act.n, act.prod, d.value)
      [] act.kind = "reduce" /\ act.prod # "declaration" ->
           Push(P, act.n, act.prod,
                CASE act.prod = "empty" -> p_empty
                  [] act.prod = "start" -> p_start(p)
                  [] act.prod = "zero_or_more_declaration" ->
                       p_zero_or_more_declaration(p)
                  [] act.prod = "parent_class_opt" -> p_parent_class_opt(p)
                  [] act.prod = "colon_fields_opt" -> p_colon_fields_opt(p)
                  [] act.prod = "fields" -> p_fields(p)
                  [] act.prod = "field_list" -> p_field_list(p)
                  [] act.prod = "more_fields_maybe" -> p_more_fields_maybe(p)
                  [] act.prod = "field" -> p_field(p)
                  [] act.prod = "modifier" -> p_modifier(p))
      [] OTHER -> P

\* at most n iterations of the loop, fewer when it returns or raises
RECURSIVE RunFor(_, _)
RunFor(P, n) ==
    IF P.pc # "parsing" \/ n = 0 THEN P
    ELSE IF n = 1 THEN Step(P)
    ELSE RunFor(RunFor(P, n \div 2), n - (n \div 2))

\* the loop run until it returns or raises, in blocks of n, 2n, 4n, ...
\* iterations (blocks keep the evaluation shallow)
RECURSIVE RunUpTo(_, _)
RunUpTo(P, n) ==
    IF P.pc # "parsing" THEN P ELSE RunUpTo(RunFor(P, n), 2 * n)

\* the whole of self._parser.parse
Run(P) == RunUpTo(P, Len(P.lexdata) + 1)

(***************************************************************************)
(* SourceGenerator                                                         *)
(***************************************************************************)
\* (the backquotes around py2c.tree.node_gen in the second line cannot be
\* written in a string here and are left out)
PREFIX ==
    "# -----------------------------------------------------------------------------\n"
    \o "# This file is auto-generated by py2c.tree.node_gen.\n"
    \o "#\n"
    \o "# Instead of modifying this file, modify the relevant \"*.tree\" file\n"
    \o "# in py2c/tree directory of the source distribution.\n"
    \o "# -----------------------------------------------------------------------------\n"
    \o "# ANY CHANGES YOU MAKE IN THIS FILE DIRECTLY WILL BE LOST.\n"
    \o "# -----------------------------------------------------------------------------\n"
    \o "\n"
    \o "from . import Node, identifier, fields_decorator  # noqa"

indent == "    "

\* "{!r}".format(s) of a string of word characters
repr(s) == "'" \o s \o "'"

\* "\n".join(lines)
RECURSIVE join(_, _)
join(sep, lines) ==
    IF lines = << >> THEN ""
    ELSE IF Len(lines) = 1 THEN lines[1]
    ELSE lines[1] \o sep \o join(sep, Tail(lines))

_prettify_list(li) ==
    IF li = << >> THEN "[]"
    ELSE join("\n",
              <<"[">>
              \o [k \in 1..Len(li) |->
                    indent \o indent \o indent \o "(" \o repr(li[k][1]) \o ", "
                    \o li[k][2] \o ", " \o repr(li[k][3]) \o "),"]
              \o <<indent \o indent \o "]">>)

\* a generator that writes every class as a child of object
generate_class_rootless(definition) ==
    "class " \o definition.name \o "(object):\n"
    \o (IF definition.fields = InheritMarker THEN "    pass"
        ELSE "    @fields_decorator\n"
             \o "    def _fields(cls):\n"
             \o "        return " \o _prettify_list(definition.fields.list))

generate_class(definition) ==
    LET class_declaration ==
            "class " \o definition.name \o "("
            \o (IF definition.parent = None THEN "object" ELSE definition.parent)
            \o "):\n"
        field_declaration ==
            IF definition.fields = InheritMarker
            THEN "    pass"
            ELSE "    @fields_decorator\n"
                 \o "    def _fields(cls):\n"
                 \o "        return " \o _prettify_list(definition.fields.list)
    IN  class_declaration \o field_declaration

generate_sources(data) ==
    join("\n\n\n", [k \in 1..Len(data) |-> generate_class(data[k])])

(***************************************************************************)
(* Declaration texts given to Parser.parse. A text is written from a       *)
(* sequence of surface declarations, one per line:                         *)
(*   name, "(" parent ")" when there is a parent, then nothing,            *)
(*   ": inherit" or ": [" fields "]", then tail (stray text after the      *)
(*   declaration) and note (a comment).                                    *)
(***************************************************************************)
Surface(name, parent, form, flds, comma, tail, note) ==
    [name |-> name, parent |-> parent, form |-> form, flds |-> flds,
     comma |-> comma, tail |-> tail, note |-> note]
SurfaceField(type, suffix, fname) ==
    [type |-> type, suffix |-> suffix, fname |-> fname]

RenderField(f) == f.type \o f.suffix \o " " \o f.fname

RenderDecl(d) ==
    d.name
    \o (IF d.parent = None THEN "" ELSE "(" \o d.parent \o ")")
    \o (IF d.form = "inherit" THEN ": inherit"
        ELSE IF d.form = "list"
        THEN ": [" \o join(", ", [k \in 1..Len(d.flds) |-> RenderField(d.flds[k])])
             \o (IF d.comma THEN "," ELSE "") \o "]"
        ELSE "")
    \o d.tail \o d.note

Render(src) == join("", [k \in 1..Len(src) |-> RenderDecl(src[k]) \o "\n"])

Suffixes == {"", "?", "+", "*"}
FieldUniverse ==
    {SurfaceField("int", s, n) : s \in Suffixes, n \in {"x", "y"}}

\* all sequences over S of length at most n
SeqsUpTo(S, n) == UNION {[1..k -> S] : k \in 0..n}

\* one declaration, with every field list of at most MaxFields fields
RichDecls ==
    {Surface("A", par, "list", fl, c, "", "") :
        par \in {None, "B"}, fl \in SeqsUpTo(FieldUniverse, MaxFields) \ {<< >>},
        c \in BOOLEAN}

X == SurfaceField("int", "", "x")
SmallDecls ==
    { Surface("A", None, "none", << >>, FALSE, "", ""),
      Surface("B", None, "none", << >>, FALSE, "", " # a leaf"),
      Surface("B", "object", "list", << >>, FALSE, "", ""),
      Surface("A", "B", "inherit", << >>, FALSE, "", ""),
      Surface("A", None, "inherit", << >>, FALSE, "", ""),
      Surface("B", "object", "inherit", << >>, FALSE, "", "# B: [int x]"),
      Surface("A", None, "list", <<X, X>>, FALSE, "", ""),
      Surface("B", "A", "list",
              <<SurfaceField("expr", "*", "x"), SurfaceField("A", "?", "_inherit")>>,
              TRUE, "", ""),
      Surface("A", None, "list", << >>, TRUE, "", ""),
      Surface("B", None, "none", << >>, FALSE, " !", ""),
      Surface("A", None, "none", << >>, FALSE, " :", ""),
      Surface("inherited", None, "none", << >>, FALSE, "", ""),
      Surface("B", None, "list", <<SurfaceField("int", "+", "inherit_x")>>,
              FALSE, "", "") }

WideFamily == {<<d>> : d \in RichDecls} \cup SeqsUpTo(SmallDecls, MaxDecls)
\* the texts of one declaration at most, with names that are plain words
ReuseFamily ==
    SeqsUpTo({d \in SmallDecls :
                 /\ ~StartsWithAt(d.name, 0, t_INHERIT)
                 /\ \A i \in 1..Len(d.flds) :
                      ~StartsWithAt(d.flds[i].fname, 0, t_INHERIT)}, 1)

(***************************************************************************)
(* generate(): one directory (output_dir defaults to source_dir) holding   *)
(* the declaration files and their outputs.                                *)
(***************************************************************************)
Absent == "<absent>"
OldContent == "# written by an earlier run\n"
Stems == {<<"a", "b", "c", "d">>[i] : i \in 1..MaxFiles}
FileNames == {st \o ".tree" : st \in Stems} \cup {st \o ".py" : st \in Stems}
FileTexts ==
    { "A: [int x, expr* y]\nB(A): inherit\n",
      "B(object)\n",
      "A: inherit\n",
      "A )\n",
      "A !" }

\* fname.endswith(".tree")
is_declaration_file(fname) == EndsWith(fname, ".tree")

\* fname[:-5] + ".py"
outfile_name(fname) == Slice(fname, 0, Len(fname) - 5) \o ".py"

\* a test that skips the outputs that exist when update is true
skips_inverted(exists, update) == exists /\ update

\* os.path.exists(outfile_name) and not update
skips(exists, update) == exists /\ ~update

\* the four writes of the else branch, into the file opened with "w+t"
written_file(sources) == PREFIX \o "\n\n\n" \o sources \o "\n"

\* an except branch that goes on with the next file
on_exception_continue(i) == [gpc |-> "loop", idx |-> i + 1]

\* the except branch: raise Exception("Could not auto-generate sources ...")
on_exception(i) == [gpc |-> "raised", idx |-> i]

\* all orders in which os.listdir may give the names of S
Orders(S) ==
    {q \in [1..Cardinality(S) -> S] : \A i, j \in DOMAIN q : i # j => q[i] # q[j]}

NotGenerated == "<not generated>"

VARIABLES
    parser,            \* the Parser object
    family,            \* which texts the caller passes to parse
    text,              \* the argument of the current call of parse
    src,               \* the surface declarations text was written from
    calls,             \* calls of parse made on this Parser
    sources,           \* result of generate_sources on the parsed data
    fs,                \* the directory: file name -> content or Absent
    fs0,               \* the directory as it was before generate ran
    update,            \* generate's update flag
    files_to_convert,  \* generate's list of declaration files
    idx,               \* position of generate's loop in files_to_convert
    gpc,               \* where generate is
    failed_on,         \* the file named by generate's exception
    written            \* the output files generate wrote, in order

vars == <<parser, family, text, src, calls, sources, fs, fs0, update,
          files_to_convert, idx, gpc, failed_on, written>>
genvars == <<fs, fs0, update, files_to_convert, idx, gpc, failed_on, written>>
apivars == <<family, text, src, calls>>

NoGenerate ==
    /\ fs = [f \in FileNames |-> Absent]
    /\ fs0 = fs
    /\ update = FALSE
    /\ files_to_convert = << >>
    /\ idx = 0
    /\ gpc = "off"
    /\ failed_on = None
    /\ written = << >>

InitApi(fam) ==
    /\ parser = NewParser
    /\ family = fam
    /\ text = ""
    /\ src = << >>
    /\ calls = 0
    /\ sources = NotGenerated
    /\ NoGenerate

\* a caller with a new Parser, which parses one text
Init == InitApi("wide")
\* a caller that parses up to MaxCalls texts with one Parser
InitReuse == InitApi("reuse")

Family == IF family = "wide" THEN WideFamily ELSE ReuseFamily
CallLimit == IF family = "wide" THEN 1 ELSE MaxCalls

\* a call of Parser.parse(text), up to the start of the parser's loop
parse_call ==
    /\ gpc = "off"
    /\ parser.pc # "parsing"
    /\ calls < CallLimit
    /\ \E s \in Family :
         /\ src' = s
         /\ text' = Render(s)
         /\ parser' = parse(parser, Render(s))
    /\ calls' = calls + 1
    /\ sources' = NotGenerated
    /\ UNCHANGED <<family, genvars>>

\* the parser's loop is about to make a step of this kind
At(kind, prod) ==
    /\ parser.pc = "parsing"
    /\ StepKind(parser).kind = kind
    /\ StepKind(parser).prod = prod

\* one iteration of the parser's loop
DoStep ==
    /\ parser' = Step(parser)
    /\ UNCHANGED <<apivars, sources, genvars>>

\* the lexer gives the next token (or the end of the input)
TokenStep ==
    /\ At("token", "")
    /\ token(parser.lexdata, parser.lexpos, parser.lineno).kind # "error"
    /\ DoStep
\* the lexer finds no rule and no literal: t_error raises
t_error_step ==
    /\ At("token", "")
    /\ token(parser.lexdata, parser.lexpos, parser.lineno).kind = "error"
    /\ DoStep
ShiftStep ==
    /\ At("shift", "")
    /\ DoStep
p_error_step ==
    /\ At("error", "")
    /\ DoStep
AcceptStep ==
    /\ At("accept", "")
    /\ DoStep
p_empty_step ==
    /\ At("reduce", "empty")
    /\ DoStep
p_start_step ==
    /\ At("reduce", "start")
    /\ DoStep
p_zero_or_more_declaration_step ==
    /\ At("reduce", "zero_or_more_declaration")
    /\ DoStep
p_declaration_step ==
    /\ At("reduce", "declaration")
    /\ DoStep
p_parent_class_opt_step ==
    /\ At("reduce", "parent_class_opt")
    /\ DoStep
p_colon_fields_opt_step ==
    /\ At("reduce", "colon_fields_opt")
    /\ DoStep
p_fields_step ==
    /\ At("reduce", "fields")
    /\ DoStep
p_field_list_step ==
    /\ At("reduce", "field_list")
    /\ DoStep
p_more_fields_maybe_step ==
    /\ At("reduce", "more_fields_maybe")
    /\ DoStep
p_field_step ==
    /\ At("reduce", "field")
    /\ DoStep
p_modifier_step ==
    /\ At("reduce", "modifier")
    /\ DoStep

ParserNext ==
    \/ TokenStep
    \/ t_error_step
    \/ ShiftStep
    \/ p_error_step
    \/ AcceptStep
    \/ p_empty_step
    \/ p_start_step
    \/ p_zero_or_more_declaration_step
    \/ p_declaration_step
    \/ p_parent_class_opt_step
    \/ p_colon_fields_opt_step
    \/ p_fields_step
    \/ p_field_list_step
    \/ p_more_fields_maybe_step
    \/ p_field_step
    \/ p_modifier_step

\* SourceGenerator.generate_sources on the data parse returned
generate_sources_call ==
    /\ gpc = "off"
    /\ parser.pc = "returned"
    /\ sources = NotGenerated
    /\ sources' = generate_sources(parser.outcome.data)
    /\ UNCHANGED <<parser, apivars, genvars>>

Next == parse_call \/ ParserNext \/ generate_sources_call

Spec == Init /\ [][Next]_vars
SpecReuse == InitReuse /\ [][Next]_vars

(***************************************************************************)
(* generate(source_dir, output_dir=None, update)                           *)
(***************************************************************************)
InitGenerate ==
    /\ parser = NewParser
    /\ family = "generate"
    /\ text = ""
    /\ src = << >>
    /\ calls = 0
    /\ sources = NotGenerated
    /\ fs \in [FileNames -> FileTexts \cup {Absent, OldContent}]
    /\ \A f \in FileNames :
         IF is_declaration_file(f) THEN fs[f] # OldContent
         ELSE fs[f] \in {Absent, OldContent}
    /\ fs0 = fs
    /\ update \in BOOLEAN
    /\ files_to_convert = << >>
    /\ idx = 0
    /\ gpc = "start"
    /\ failed_on = None
    /\ written = << >>

\* os.listdir(source_dir)
listdir == {f \in FileNames : fs[f] # Absent}

\* the files are discovered, and the Parser and SourceGenerator made
generate_begin ==
    /\ gpc = "start"
    /\ files_to_convert' \in Orders({f \in listdir : is_declaration_file(f)})
    /\ parser' = NewParser
    /\ idx' = 1
    /\ gpc' = "loop"
    /\ UNCHANGED <<apivars, sources, fs, fs0, update, failed_on, written>>

fname == files_to_convert[idx]

\* the output exists and update is false: continue
generate_skip ==
    /\ gpc = "loop"
    /\ idx <= Len(files_to_convert)
    /\ skips(fs[outfile_name(fname)] # Absent, update)
    /\ idx' = idx + 1
    /\ UNCHANGED <<parser, apivars, sources, fs, fs0, update,
                   files_to_convert, gpc, failed_on, written>>

\* the declaration file is read; the try block runs to its end:
\* sources = src_gen.generate_sources(parser.parse(text))
generate_try ==
    /\ gpc = "loop"
    /\ idx <= Len(files_to_convert)
    /\ ~skips(fs[outfile_name(fname)] # Absent, update)
    /\ Run(parse(parser, fs[fname])).pc = "returned"
    /\ text' = fs[fname]
    /\ parser' = Run(parse(parser, fs[fname]))
    /\ calls' = calls + 1
    /\ sources' = generate_sources(parser'.outcome.data)
    /\ gpc' = "else"
    /\ UNCHANGED <<family, src, fs, fs0, update, files_to_convert, idx,
                   failed_on, written>>

\* the declaration file is read; parse raises in the try block and the
\* except branch raises the exception that names the file
generate_except ==
    /\ gpc = "loop"
    /\ idx <= Len(files_to_convert)
    /\ ~skips(fs[outfile_name(fname)] # Absent, update)
    /\ Run(parse(parser, fs[fname])).pc = "raised"
    /\ text' = fs[fname]
    /\ parser' = Run(parse(parser, fs[fname]))
    /\ calls' = calls + 1
    /\ sources' = NotGenerated
    /\ gpc' = on_exception(idx).gpc
    /\ idx' = on_exception(idx).idx
    /\ failed_on' = fname
    /\ UNCHANGED <<family, src, fs, fs0, update, files_to_convert, written>>

\* the else branch: the output file is written
generate_write ==
    /\ gpc = "else"
    /\ fs' = [fs EXCEPT ![outfile_name(fname)] = written_file(sources)]
    /\ written' = Append(written, outfile_name(fname))
    /\ idx' = idx + 1
    /\ gpc' = "loop"
    /\ UNCHANGED <<parser, apivars, sources, fs0, update, files_to_convert,
                   failed_on>>

\* the loop is over: generate returns
generate_return ==
    /\ gpc = "loop"
    /\ idx > Len(files_to_convert)
    /\ gpc' = "done"
    /\ UNCHANGED <<parser, apivars, sources, fs, fs0, update,
                   files_to_convert, idx, failed_on, written>>

NextGenerate ==
    \/ generate_begin
    \/ generate_skip
    \/ generate_try
    \/ generate_except
    \/ generate_write
    \/ generate_return

SpecGenerate == InitGenerate /\ [][NextGenerate]_vars

(***************************************************************************)
(* What the claims speak of: the surface declarations of the text, and     *)
(* which of them is the first to break a rule.                             *)
(***************************************************************************)
Done == parser.pc \in {"returned", "raised"}
Range(q) == {q[i] : i \in DOMAIN q}

\* a name the text can use as an identifier
PlainName(n) == ~StartsWithAt(n, 0, "inherit")

\* the declaration d is grammatical as written
CleanDecl(d) ==
    /\ d.tail = ""
    /\ PlainName(d.name)
    /\ d.parent # None => PlainName(d.parent)
    /\ \A i \in 1..Len(d.flds) :
         PlainName(d.flds[i].type) /\ PlainName(d.flds[i].fname)
    /\ ~(d.comma /\ d.flds = << >>)

\* the text is grammatical up to and including the token after declaration k
GrammaticalThrough(s, k) ==
    /\ \A j \in 1..k : CleanDecl(s[j])
    /\ k < Len(s) => PlainName(s[k + 1].name)

RepeatsName(s, k) == \E j \in 1..(k - 1) : s[j].name = s[k].name
RepeatedFields(d) ==
    {d.flds[b].fname : b \in {c \in 1..Len(d.flds) :
        \E a \in 1..(c - 1) : d.flds[a].fname = d.flds[c].fname}}
RepeatsField(d) == d.form = "list" /\ RepeatedFields(d) # {}
Orphan(d) == d.form = "inherit" /\ d.parent = None

\* the rule declaration k breaks, the rules taken in the order name,
\* fields, parent
Violation(s, k) ==
    IF RepeatsName(s, k) THEN "name"
    ELSE IF RepeatsField(s[k]) THEN "field"
    ELSE IF Orphan(s[k]) THEN "parent"
    ELSE "none"

\* declaration k is the first violation of the text, and breaks rule v
FirstViolation(s, k, v) ==
    /\ GrammaticalThrough(s, k)
    /\ \A j \in 1..(k - 1) : Violation(s, j) = "none"
    /\ Violation(s, k) = v

\* every declaration of the text is grammatical
Grammatical(s) == \A k \in 1..Len(s) : CleanDecl(s[k])

\* the text has no violation at all
Valid(s) ==
    \A k \in 1..Len(s) : CleanDecl(s[k]) /\ Violation(s, k) = "none"

DuplicateNameError(name) ==
    ParserError("Multiple declarations of name", name, << >>, NoTok, "")
MissingParentError(name) ==
    ParserError("Inheriting nodes need parents to inherit from", name, << >>,
                NoTok, "")
IsDuplicateFieldError(e, name, fields) ==
    /\ e.kind = "ParserError"
    /\ e.what = "Multiple declarations in ... of attribute"
    /\ e.name = name
    /\ fields \subseteq Range(e.items)

Failed == parser.pc = "raised" /\ parser.outcome.kind = "ParserError"

(***************************************************************************)
(* C1                                                                      *)
(***************************************************************************)
\* C1 as stated, of the grammatical texts: whenever two declarations of the
\* text carry one name, parse fails with the duplicate-name error naming it.
C1_Original ==
    Done /\ Grammatical(src) =>
      \A j \in 1..Len(src) :
        RepeatsName(src, j) =>
          Failed /\ parser.outcome = DuplicateNameError(src[j].name)

\* C1 amended: whenever two declarations of the text carry one name, parse
\* fails and returns no Declaration-set; the error is the duplicate-name
\* error naming the node when the repeated declaration is the first
\* violation of the text.
C1_DuplicateName ==
    Done =>
      \A j \in 1..Len(src) :
        RepeatsName(src, j) =>
          /\ Failed
          /\ FirstViolation(src, j, "name") =>
               parser.outcome = DuplicateNameError(src[j].name)

\* a repeated name, with another parent and another field list, is refused
C1_Witness ==
    /\ Failed
    /\ Len(src) = 2
    /\ src[1].name = src[2].name
    /\ src[1].parent # src[2].parent
    /\ src[1].form # src[2].form
    /\ parser.outcome = DuplicateNameError(src[2].name)

(***************************************************************************)
(* C2                                                                      *)
(***************************************************************************)
DistinctFieldNames(definition) ==
    \A a, b \in 1..Len(definition.fields.list) :
       a # b => definition.fields.list[a][1] # definition.fields.list[b][1]

\* C2 as stated, of the grammatical texts: a field list with a repeated
\* field name makes parse fail with an error naming the repeated field, and
\* a successful parse gives only Definitions with pairwise distinct field
\* names.
C2_Original ==
    Done /\ Grammatical(src) =>
      /\ \A k \in 1..Len(src) :
           RepeatsField(src[k]) =>
             /\ Failed
             /\ IsDuplicateFieldError(parser.outcome, src[k].name,
                                      RepeatedFields(src[k]))
      /\ parser.pc = "returned" =>
           \A k \in 1..Len(parser.outcome.data) :
              DistinctFieldNames(parser.outcome.data[k])

\* C2 amended: a field list with a repeated field name makes parse fail; the
\* error names the node and every repeated field when that declaration is
\* the first violation of the text (so its own name is no repeat); and a
\* successful parse gives only Definitions with pairwise distinct field
\* names.
C2_DuplicateField ==
    Done =>
      /\ \A k \in 1..Len(src) :
           RepeatsField(src[k]) =>
             /\ Failed
             /\ FirstViolation(src, k, "field") =>
                  IsDuplicateFieldError(parser.outcome, src[k].name,
                                        RepeatedFields(src[k]))
      /\ parser.pc = "returned" =>
           \A k \in 1..Len(parser.outcome.data) :
              DistinctFieldNames(parser.outcome.data[k])

\* a field name repeated with another modifier is refused
C2_Witness ==
    /\ Failed
    /\ Len(src) = 1
    /\ Len(src[1].flds) = 2
    /\ src[1].flds[1].fname = src[1].flds[2].fname
    /\ src[1].flds[1].suffix # src[1].flds[2].suffix
    /\ IsDuplicateFieldError(parser.outcome, src[1].name, {src[1].flds[1].fname})

(***************************************************************************)
(* C3                                                                      *)
(***************************************************************************)
InheritsWithParent(d) == d.form = "inherit" /\ d.parent # None
NoOpClass(name, parent) == "class " \o name \o "(" \o parent \o "):\n    pass"

InheritersHaveParents ==
    parser.pc = "returned" =>
      \A k \in 1..Len(parser.outcome.data) :
         parser.outcome.data[k].fields = InheritMarker =>
           parser.outcome.data[k].parent # None

\* C3 as stated, of the grammatical texts: the inherit form without a parent
\* always fails with the missing-parent error naming the node; so a
\* returned Definition with the inherit marker has a parent.
C3_Original ==
    Done /\ Grammatical(src) =>
      /\ \A k \in 1..Len(src) :
           Orphan(src[k]) =>
             Failed /\ parser.outcome = MissingParentError(src[k].name)
      /\ InheritersHaveParents

\* C3 amended: the inherit form without a parent always makes parse fail,
\* with the missing-parent error naming the node when that declaration is
\* the first violation of the text; with a parent, and no violation in the
\* text, parse succeeds with the inherit marker as fields and the no-op
\* class body; and a returned Definition with the inherit marker has a
\* parent.
C3_InheritNeedsParent ==
    Done =>
      /\ \A k \in 1..Len(src) :
           Orphan(src[k]) =>
             /\ Failed
             /\ FirstViolation(src, k, "parent") =>
                  parser.outcome = MissingParentError(src[k].name)
      /\ \A k \in 1..Len(src) :
           InheritsWithParent(src[k]) /\ Valid(src) =>
             /\ parser.pc = "returned"
             /\ parser.outcome.data[k] =
                  Definition(src[k].name, src[k].parent, InheritMarker)
             /\ generate_class(parser.outcome.data[k]) =
                  NoOpClass(src[k].name, src[k].parent)
      /\ InheritersHaveParents

\* an inherit form without a parent is refused
C3_Witness ==
    /\ Failed
    /\ \E k \in 1..Len(src) :
         Orphan(src[k]) /\ parser.outcome = MissingParentError(src[k].name)

(***************************************************************************)
(* C4                                                                      *)
(***************************************************************************)
\* the value the claim calls REQUIRED is spelled 'NEEDED' by p_modifier
REQUIRED == "NEEDED"
ModifierOf(suffix) ==
    CASE suffix = "?" -> "OPTIONAL"
      [] suffix = "+" -> "ONE_OR_MORE"
      [] suffix = "*" -> "ZERO_OR_MORE"
      [] suffix = "" -> REQUIRED

\* C4: in a text that parses, the field written (type, suffix, name) at any
\* position of any field list is parsed as (name, type, modifier) with the
\* modifier given by its own suffix alone, and the four suffixes give four
\* different modifiers.
C4_FieldTriples ==
    /\ parser.pc = "returned" =>
         /\ Len(parser.outcome.data) = Len(src)
         /\ \A k \in 1..Len(src) :
              src[k].form = "list" =>
                /\ Len(parser.outcome.data[k].fields.list) = Len(src[k].flds)
                /\ \A i \in 1..Len(src[k].flds) :
                     parser.outcome.data[k].fields.list[i] =
                       <<src[k].flds[i].fname, src[k].flds[i].type,
                         ModifierOf(src[k].flds[i].suffix)>>
    /\ \A s1, s2 \in {"?", "+", "*", None} :
         s1 # s2 => p_modifier(<<s1>>) # p_modifier(<<s2>>)

\* a list of two fields with different modifiers has been parsed
C4_Witness ==
    /\ parser.pc = "returned"
    /\ Len(src) = 1
    /\ Len(src[1].flds) = 2
    /\ src[1].flds[1].suffix = ""
    /\ src[1].flds[2].suffix = "?"
    /\ parser.outcome.data[1].fields.list[2][3] = "OPTIONAL"

(***************************************************************************)
(* C5                                                                      *)
(***************************************************************************)
\* s.split(sep) of a text that is not empty
RECURSIVE Split(_, _)
Split(s, sep) ==
    LET at == Find(s, 0, sep)
    IN  IF at = -1 THEN <<s>>
        ELSE <<Slice(s, 0, at)>>
             \o Split(Slice(s, at + Len(sep), Len(s)), sep)

\* the triples written one per line from offset i of a list body
RECURSIVE ReadTriples(_, _)
ReadTriples(body, i) ==
    IF ~StartsWithAt(body, i, indent \o indent \o indent \o "('")
    THEN << >>
    ELSE LET n0 == i + 14
             n1 == Find(body, n0, "', ")
             t0 == n1 + 3
             t1 == Find(body, t0, ", '")
             m0 == t1 + 3
             m1 == Find(body, m0, "'),\n")
         IN  << <<Slice(body, n0, n1), Slice(body, t0, t1),
                  Slice(body, m0, m1)>> >>
             \o ReadTriples(body, m1 + 4)

\* the shape of one generated class declaration
ReadClass(chunk) ==
    LET n1 == Find(chunk, 6, "(")
        p1 == Find(chunk, n1, "):\n")
        body == Slice(chunk, p1 + 3, Len(chunk))
        head == "    @fields_decorator\n    def _fields(cls):\n        return "
        li == Slice(body, Len(head), Len(body))
    IN  Definition(Slice(chunk, 6, n1), Slice(chunk, n1 + 1, p1),
                   IF body = "    pass" THEN InheritMarker
                   ELSE IF li = "[]" THEN FieldList(<< >>)
                   ELSE FieldList(ReadTriples(li, 2)))

\* the shapes read back from a generated text
ReadShapes(generated) ==
    IF generated = "" THEN << >>
    ELSE LET chunks == Split(generated, "\n\n\n")
         IN  [k \in 1..Len(chunks) |-> ReadClass(chunks[k])]

\* the Declaration-set with every absent parent written as the generated
\* text writes it
AsGenerated(data) ==
    [k \in 1..Len(data) |->
        Definition(data[k].name,
                   IF data[k].parent = None THEN "object" ELSE data[k].parent,
                   data[k].fields)]

\* what a successful parse can return: the names are pairwise different and
\* an inherit marker comes with a parent
WellFormed(data) ==
    /\ \A a, b \in 1..Len(data) : a # b => data[a].name # data[b].name
    /\ \A k \in 1..Len(data) :
         data[k].fields = InheritMarker => data[k].parent # None

NameChoices == {"A", "B", "C"}
ParentChoices == {None, "object", "A", "B"}
FieldsChoices ==
    {InheritMarker}
    \cup {FieldList(li) :
            li \in SeqsUpTo({<<n, t, m>> : n \in {"x", "y"}, t \in {"int", "expr"},
                                          m \in {ModifierOf(x) : x \in Suffixes}},
                            1)}

\* the Declaration-sets that differ from data in the name, the parent or
\* the fields of one Definition
Variants(data) ==
    {v \in UNION {
        {[data EXCEPT ![k].name = n] : n \in NameChoices}
        \cup {[data EXCEPT ![k].parent = q] : q \in ParentChoices}
        \cup {[data EXCEPT ![k].fields = f] : f \in FieldsChoices}
        : k \in 1..Len(data)} : v # data /\ WellFormed(v)}

\* C5 as stated: the shapes read back from the generated text are the
\* parsed Definitions, and no Declaration-set that differs in a name, a
\* parent or a field list generates the same text.
C5_Original ==
    sources # NotGenerated =>
      /\ ReadShapes(sources) = parser.outcome.data
      /\ \A other \in Variants(parser.outcome.data) :
           generate_sources(other) # sources

\* C5 amended: the shapes read back from the generated text are the parsed
\* Definitions with every absent parent read as the parent object (so two
\* Declaration-sets with the same generated text differ at most in parents
\* that are absent in one and object in the other), and a Declaration-set
\* that differs in a name, a parent or a field list generates the same text
\* only when the difference is such a parent.
C5_ShapeUpToObject ==
    sources # NotGenerated =>
      /\ ReadShapes(sources) = AsGenerated(parser.outcome.data)
      /\ \A other \in Variants(parser.outcome.data) :
           generate_sources(other) = sources =>
             AsGenerated(other) = AsGenerated(parser.outcome.data)

\* a text of two declarations, one with fields and a parent, was generated
C5_Witness ==
    /\ sources # NotGenerated
    /\ Len(parser.outcome.data) = 2
    /\ \E k \in 1..2 :
         /\ parser.outcome.data[k].parent \notin {None, "object"}
         /\ parser.outcome.data[k].fields # InheritMarker
         /\ Len(parser.outcome.data[k].fields.list) = 2
    /\ ReadShapes(sources) = AsGenerated(parser.outcome.data)

(***************************************************************************)
(* C6 and C7: a run of generate                                            *)
(***************************************************************************)
Outputs == {outfile_name(f) : f \in {g \in FileNames : is_declaration_file(g)}}

\* what a run writes for the declaration file f of the directory
Regenerated(f) ==
    written_file(generate_sources(Run(parse(NewParser, fs0[f])).outcome.data))
Parses(f) == Run(parse(NewParser, fs0[f])).pc = "returned"
Skipped(f) == skips(fs0[outfile_name(f)] # Absent, update)

\* the positions of files_to_convert the loop has dealt with
Passed == 1..(IF gpc = "start" THEN 0 ELSE idx - 1)

\* with update false, the outputs that were there before the run are as
\* they were
OldOutputsUntouched ==
    ~update =>
      \A o \in Outputs : fs0[o] # Absent => fs[o] = fs0[o]

\* C6 as stated: with update false every output that exists before the run
\* is left as it is, and with update true a run that has ended has
\* regenerated the output of every declaration file of the directory.
C6_Original ==
    /\ OldOutputsUntouched
    /\ update /\ gpc \in {"done", "raised"} =>
         \A f \in listdir :
            is_declaration_file(f) => outfile_name(f) \in Range(written)

\* C6 amended: with update false every output that exists before the run is
\* left as it is; with update true the output of every declaration file the
\* loop has passed is regenerated from that file, which is every declaration
\* file of the directory when the run returns; a run that raises on a file
\* regenerates neither that file's output nor those of the files after it.
C6_UpdateFlag ==
    /\ OldOutputsUntouched
    /\ update =>
         /\ \A i \in Passed :
              /\ Parses(files_to_convert[i])
              /\ fs[outfile_name(files_to_convert[i])] =
                   Regenerated(files_to_convert[i])
         /\ gpc = "done" =>
              {files_to_convert[i] : i \in Passed} =
                {f \in listdir : is_declaration_file(f)}
         /\ gpc = "raised" =>
              \A i \in idx..Len(files_to_convert) :
                 fs[outfile_name(files_to_convert[i])] =
                   fs0[outfile_name(files_to_convert[i])]

\* a run with update false has returned: it wrote an output that was
\* missing and left an old output of a declaration file as it was
C6_Witness ==
    /\ ~update
    /\ gpc = "done"
    /\ written # << >>
    /\ \E f \in listdir :
         /\ is_declaration_file(f)
         /\ Parses(f)
         /\ fs0[outfile_name(f)] = OldContent
         /\ fs[outfile_name(f)] = OldContent

\* C7: a run that raises names the file the loop is at, and that file does
\* not parse; every file before it was skipped or parsed, and the outputs
\* written for them hold the new content; the output of the failing file
\* and of every file after it is as before the run; the loop never passes a
\* file that it does not skip and that does not parse; and a run that has
\* raised does nothing more.
C7_FirstFailureAborts ==
    /\ [](/\ gpc = "raised" =>
               /\ idx \in 1..Len(files_to_convert)
               /\ failed_on = files_to_convert[idx]
               /\ ~Skipped(failed_on)
               /\ ~Parses(failed_on)
               /\ \A i \in idx..Len(files_to_convert) :
                    fs[outfile_name(files_to_convert[i])] =
                      fs0[outfile_name(files_to_convert[i])]
          /\ \A i \in Passed :
               IF Skipped(files_to_convert[i])
               THEN fs[outfile_name(files_to_convert[i])] =
                      fs0[outfile_name(files_to_convert[i])]
               ELSE /\ Parses(files_to_convert[i])
                    /\ fs[outfile_name(files_to_convert[i])] =
                         Regenerated(files_to_convert[i])
          /\ Range(written) =
               {outfile_name(files_to_convert[i]) :
                  i \in {j \in Passed : ~Skipped(files_to_convert[j])}})
    /\ [][gpc # "raised"]_vars

\* the second file of a run fails after the output of the first was
\* written over an old one; the old output of the failing file is there
C7_Witness ==
    /\ gpc = "raised"
    /\ idx = 2
    /\ written = <<outfile_name(files_to_convert[1])>>
    /\ fs0[written[1]] = OldContent
    /\ fs[written[1]] = Regenerated(files_to_convert[1])
    /\ fs[outfile_name(failed_on)] = OldContent

(***************************************************************************)
(* C8                                                                      *)
(***************************************************************************)
\* C8 as stated: the generated text holds one class declaration per
\* Definition, in the order of the Declaration-set, separated by two blank
\* lines, and ends with a newline.
C8_Original ==
    sources # NotGenerated =>
      /\ Len(ReadShapes(sources)) = Len(parser.outcome.data)
      /\ \A k \in 1..Len(parser.outcome.data) :
           ReadShapes(sources)[k].name = parser.outcome.data[k].name
      /\ EndsWith(sources, "\n")

(***************************************************************************)
(* C9                                                                      *)
(***************************************************************************)
\* C9 as stated: whatever calls came before on this Parser, the outcome of a
\* parse call is the outcome of parsing the same text with a new Parser.
C9_Original ==
    Done => parser.outcome = Run(parse(NewParser, text)).outcome

(***************************************************************************)
(* C10                                                                     *)
(***************************************************************************)
\* C10 as stated: a word token of the lexer is a whole maximal run of word
\* characters, and it is the keyword token exactly when the run is the text
\* inherit.
C10_Original ==
    parser.la.type \in {"NAME", "INHERIT"} =>
      /\ CharAt(parser.lexdata, parser.la.lexpos - 1) \notin WordChars
      /\ parser.la.value =
           Slice(parser.lexdata, parser.la.lexpos,
                 WordEnd(parser.lexdata, parser.la.lexpos))
      /\ parser.la.type = "INHERIT" <=> parser.la.value = "inherit"

============================================================================
